---- MODULE Spec2Model ----
(***************************************************************************)
(* Model of arish420/pdf_to_ai_answer: the Streamlit application app.py    *)
(* (main and its helpers) and the library document_processor.py.           *)
(*                                                                         *)
(* Text is a sequence of one-character strings, so that trimming,          *)
(* splitting, the question pattern and the length threshold are computed   *)
(* character by character as the Python code computes them.                *)
(***************************************************************************)
EXTENDS Integers, Sequences, FiniteSets, TLC

\* ------------------------------------------------------------------ bounds
\* Longest text handed to the segmenter in SpecSeg.
MaxLen == 6
\* Largest number of pages (pdf) or paragraphs (docx) of an uploaded document.
MaxPages == 2
\* Longest list of (question, answer) pairs handed to the assembler in SpecAsm.
MaxPairs == 3

\* ------------------------------------------------------- program constants
\* app.py:160, document_processor.py:46: len(text.strip()) < 50
OcrThreshold == 50
\* app.py:174, document_processor.py:72: len(q.split()) > 2
MinTokens == 2
\* app.py:202: len(api_key) < 20
MinKeyLen == 20

\* ------------------------------------------------------------ characters
Upper ==
  {"A","B","C","D","E","F","G","H","I","J","K","L","M",
   "N","O","P","Q","R","S","T","U","V","W","X","Y","Z"}
\* the characters str.strip() and str.split() treat as whitespace
Whitespace == {" ", "\n", "\t"}
\* the characters the question pattern excludes: [^?.!]
Terminators == {"?", ".", "!"}
Digits == <<"0","1","2","3","4","5","6","7","8","9">>

SetMin(S) == CHOOSE x \in S : \A y \in S : x <= y
SetMax(S) == CHOOSE x \in S : \A y \in S : x >= y
Rep(c, n) == [i \in 1..n |-> c]

\* str.strip(): drop leading and trailing whitespace
Strip(s) ==
  LET idx == {i \in 1..Len(s) : s[i] \notin Whitespace}
  IN  IF idx = {} THEN <<>> ELSE SubSeq(s, SetMin(idx), SetMax(idx))

\* str.lstrip()
LStrip(s) ==
  LET idx == {i \in 1..Len(s) : s[i] \notin Whitespace}
  IN  IF idx = {} THEN <<>> ELSE SubSeq(s, SetMin(idx), Len(s))

\* str.split() with no argument: the maximal runs of non-whitespace
RECURSIVE Split(_)
Split(s) ==
  LET t == LStrip(s)
  IN  IF t = <<>> THEN <<>>
      ELSE LET ws == {i \in 1..Len(t) : t[i] \in Whitespace}
               e  == IF ws = {} THEN Len(t) + 1 ELSE SetMin(ws)
           IN  <<SubSeq(t, 1, e - 1)>> \o Split(SubSeq(t, e, Len(t)))

\* str(int) as used by the f-string "Question {i}"
RECURSIVE IntToStr(_)
IntToStr(n) ==
  IF n < 10 THEN <<Digits[n + 1]>>
  ELSE IntToStr(n \div 10) \o <<Digits[(n % 10) + 1]>>

\* ------------------------------------------------- the question segmenter
\* re.findall(r"([A-Z][^?.!]*\?)", text): leftmost non-overlapping matches.
\* A match starts at an uppercase letter and runs to the first terminator
\* after it, which has to be "?"; otherwise the scan moves on by one.
RECURSIVE FindAllFrom(_, _)
FindAllFrom(text, i) ==
  IF i > Len(text) THEN <<>>
  ELSE IF text[i] \notin Upper THEN FindAllFrom(text, i + 1)
  ELSE LET stops == {j \in (i + 1)..Len(text) : text[j] \in Terminators}
       IN  IF stops = {} THEN FindAllFrom(text, i + 1)
           ELSE LET j == SetMin(stops)
                IN  IF text[j] = "?"
                    THEN <<SubSeq(text, i, j)>> \o FindAllFrom(text, j + 1)
                    ELSE FindAllFrom(text, i + 1)

FindAll(text) == FindAllFrom(text, 1)

\* the filter of extract_questions: len(q.split()) > 2
KeepQuestionLoose(q) == Len(Split(q)) > MinTokens - 1
KeepQuestion(q) == Len(Split(q)) > MinTokens

\* extract_questions(text)
ExtractQuestions(text) ==
  LET kept == SelectSeq(FindAll(text), KeepQuestion)
  IN  [k \in 1..Len(kept) |-> Strip(kept[k])]

\* ------------------------------------------------------ fixed strings
\* app.py:194, document_processor.py:121
Title == <<"Q","u","e","s","t","i","o","n","s"," ","&"," ","A","n","s","w","e","r","s"," ","f","r","o","m"," ","D","o","c","u","m","e","n","t">>
\* app.py:196, document_processor.py:124: f"Question {i}: {question}"
QuestionLabel == <<"Q","u","e","s","t","i","o","n"," ">>
\* app.py:190
FallbackApp == <<"U","n","a","b","l","e"," ","t","o"," ","g","e","n","e","r","a","t","e"," ","a","n"," ","a","n","s","w","e","r","."," ","P","l","e","a","s","e"," ","c","h","e","c","k"," ","y","o","u","r"," ","A","P","I"," ","k","e","y"," ","a","n","d"," ","t","r","y"," ","a","g","a","i","n",".">>
\* document_processor.py:109
FallbackDP == <<"U","n","a","b","l","e"," ","t","o"," ","g","e","n","e","r","a","t","e"," ","a","n"," ","a","n","s","w","e","r"," ","a","t"," ","t","h","i","s"," ","t","i","m","e",".">>

\* sample contents of documents and of service replies
QWhy == <<"W","h","y"," ","i","s"," ","i","t","?">>
QWho == <<"W","h","o"," ","a","m"," ","I"," ","n","o","w","?">>
QCan == <<"C","a","n"," ","w","e"," ","g","o","?">>
ReplyYes == <<" ","Y","e","s","\n">>

\* ---------------------------------------------------- the result assembler
\* the loop of save_to_docx / save_qa_to_docx, i counting from `i`
RECURSIVE AddPairs(_, _, _)
AddPairs(doc, pairs, i) ==
  IF pairs = <<>> THEN doc
  ELSE AddPairs(
         doc \o << [style |-> "Heading 2",
                    text  |-> QuestionLabel \o IntToStr(i) \o <<":", " ">> \o Head(pairs)[1]],
                   [style |-> "Normal",
                    text  |-> Head(pairs)[2] \o <<"\n">>] >>,
         Tail(pairs), i + 1)

\* enumerate(questions_answers, start=0): the numbering bug
SaveToDocxFromZero(pairs) ==
  AddPairs(<< [style |-> "Heading 1", text |-> Title] >>, pairs, 0)
\* save_to_docx(questions_answers, output_file): the paragraphs of the document
SaveToDocx(pairs) ==
  AddPairs(<< [style |-> "Heading 1", text |-> Title] >>, pairs, 1)

\* ------------------------------------------------------------ documents
\* what page.extract_text() / para.text can yield for one page or paragraph:
\* nothing (None or ""), 25 characters starting with a blank, 24 characters
PageEmpty == <<>>
PageWhy == <<" ">> \o QWhy \o Rep("x", 14)
PageWho == QWho \o Rep("y", 11)
PageTexts == {PageEmpty, PageWhy, PageWho}
\* what pytesseract.image_to_string(image) can yield for one page image
OcrTexts == {<<>>, QCan}

PageLists == UNION {[1..n -> PageTexts] : n \in 0..MaxPages}

\* A document: its extension, its pages (or paragraphs), whether the parsing
\* library raises while reading it and, if so, after how many pages.
NoFile == [some |-> FALSE, ext |-> "", pages |-> <<>>, fails |-> FALSE, readOk |-> 0]
DocsOf(ext) ==
  {[some |-> TRUE, ext |-> ext, pages |-> p, fails |-> f, readOk |-> r] :
     <<p, f, r>> \in {t \in PageLists \X BOOLEAN \X (0..MaxPages) :
                        /\ t[3] <= Len(t[1])
                        /\ (~t[2] => t[3] = Len(t[1]))}}
OtherFile == [some |-> TRUE, ext |-> "txt", pages |-> <<>>, fails |-> FALSE, readOk |-> 0]

\* st.file_uploader("Upload a document", type=[...]) with any extension allowed
FileUploaderAny(picked) == [file |-> picked, rejected |-> FALSE]
\* st.file_uploader("Upload a document", type=["pdf", "docx"]): the widget
\* hands over a file with an allowed extension and rejects, with its own
\* error, any other file
FileUploader(picked) ==
  IF picked.some /\ picked.ext \notin {"pdf", "docx"}
  THEN [file |-> NoFile, rejected |-> TRUE]
  ELSE [file |-> picked, rejected |-> FALSE]

\* ----------------------------------------------------------- credentials
NoKey == [some |-> FALSE, s |-> <<>>]
Key(s) == [some |-> TRUE, s |-> s]
KeyGoodSk == Key(<<"s","k","-">> \o Rep("a", 21))
KeyGoodOrg == Key(<<"o","r","g","-">> \o Rep("b", 16))
KeyShortSk == Key(<<"s","k","-">> \o Rep("a", 16))
KeyBadPrefix == Key(<<"p","k","-">> \o Rep("c", 21))
KeyEmpty == Key(<<>>)

StartsWith(s, pre) == Len(s) >= Len(pre) /\ SubSeq(s, 1, Len(pre)) = pre

\* validate_api_key(api_key)
ValidateApiKey(k) ==
  /\ k.some
  /\ k.s # <<>>
  /\ Len(k.s) >= MinKeyLen
  /\ (StartsWith(k.s, <<"s","k","-">>) \/ StartsWith(k.s, <<"o","r","g","-">>))

\* get_api_key(): environment variable, then session state, then config.py
GetApiKey(env, session, config) ==
  LET k1 == env
      k2 == IF ~ValidateApiKey(k1) /\ session.some /\ session.s # <<>>
            THEN session ELSE k1
  IN  IF ~ValidateApiKey(k2) /\ config.some THEN config ELSE k2

\* main, line 276, without the credential test
PipelineEnabledNoKey(file, key) == file.some
\* main, line 276: if uploaded_file and validate_api_key(current_api_key)
PipelineEnabled(file, key) == file.some /\ ValidateApiKey(key)

\* main, line 302, taking the button as always pressed
AcquisitionEnabledAuto(qs, pressed) == qs # <<>>
\* main, lines 294-302: questions were found and the button was pressed
AcquisitionEnabled(qs, pressed) == qs # <<>> /\ pressed

\* ------------------------------------------------------------ extractors
\* the text accumulated by extract_text_from_pdf after n pages: a page
\* with no text (None or "") adds nothing, any other page adds text + "\n"
RECURSIVE PdfText(_, _)
PdfText(pages, n) ==
  IF n = 0 THEN <<>>
  ELSE PdfText(pages, n - 1)
         \o (IF pages[n] # <<>> THEN pages[n] \o <<"\n">> ELSE <<>>)

\* extract_text_from_pdf(pdf_path): on an exception the text read so far
\* is returned, after st.error
ExtractTextFromPdf(doc) ==
  [text  |-> PdfText(doc.pages, IF doc.fails THEN doc.readOk ELSE Len(doc.pages)),
   error |-> doc.fails]

\* "\n".join(paragraphs)
RECURSIVE JoinLines(_)
JoinLines(paras) ==
  IF paras = <<>> THEN <<>>
  ELSE IF Len(paras) = 1 THEN paras[1]
  ELSE paras[1] \o <<"\n">> \o JoinLines(Tail(paras))

\* text += para.text + "\n" for every paragraph
RECURSIVE AppendLines(_)
AppendLines(paras) ==
  IF paras = <<>> THEN <<>>
  ELSE paras[1] \o <<"\n">> \o AppendLines(Tail(paras))

\* extract_text_from_docx keeping the paragraphs read before the exception
ExtractTextFromDocxPartial(impl, doc) ==
  LET read == SubSeq(doc.pages, 1, IF doc.fails THEN doc.readOk ELSE Len(doc.pages))
  IN  [text  |-> IF impl = "app" THEN JoinLines(read) ELSE AppendLines(read),
       error |-> doc.fails]
\* extract_text_from_docx(docx_path): "" on an exception, after st.error
ExtractTextFromDocx(impl, doc) ==
  IF doc.fails THEN [text |-> <<>>, error |-> TRUE]
  ELSE [text  |-> IF impl = "app" THEN JoinLines(doc.pages) ELSE AppendLines(doc.pages),
        error |-> FALSE]

\* the scanned-document test with the boundary off by one
NeedsOcrInclusive(text) == Len(Strip(text)) <= OcrThreshold
\* len(text.strip()) < 50
NeedsOcr(text) == Len(Strip(text)) < OcrThreshold

\* How an OCR pass can go wrong once an engine is there: not at all, in
\* convert_from_path (rasterization), or in image_to_string on some page.
OcrFaults == {"none", "convert", "page"}

\* extract_text_with_ocr(pdf_path).  n page images, texts[i] what OCR reads
\* on image i.  `raster` counts the pages rasterized, `msgs` what is surfaced,
\* `raised` whether the except clause was taken.
ExtractTextWithOcr(impl, n, texts, engine, fault) ==
  IF impl = "app" /\ ~engine
  THEN \* app.py:118-120: the check that precedes convert_from_path
       [text |-> <<>>, raster |-> 0, msgs |-> {"ocr_unavailable"}, raised |-> FALSE]
  ELSE IF fault = "convert"
  THEN [text |-> <<>>, raster |-> 0, msgs |-> {"ocr_error"}, raised |-> TRUE]
  ELSE IF n >= 1 /\ (~engine \/ fault = "page")
  THEN \* image_to_string raises; every page was rasterized before the loop
       [text |-> <<>>, raster |-> n, msgs |-> {"ocr_error"}, raised |-> TRUE]
  ELSE [text |-> AppendLines(texts), raster |-> n, msgs |-> {}, raised |-> FALSE]

\* get_document_text keeping the structured text when OCR returns nothing
GetDocumentTextKeepStruct(impl, doc, ocrTexts, engine, fault) ==
  IF doc.ext = "pdf" THEN
    LET st == ExtractTextFromPdf(doc)
        em == IF st.error THEN {"pdf_error"} ELSE {}
    IN  IF NeedsOcr(st.text)
        THEN LET o == ExtractTextWithOcr(impl, Len(doc.pages), ocrTexts, engine, fault)
             IN  [text |-> IF o.text = <<>> THEN st.text ELSE o.text,
                  struct |-> st.text, failed |-> st.error,
                  log |-> <<"pdf", "ocr">>, raster |-> o.raster,
                  ocr |-> o.text, ocrRaised |-> o.raised,
                  msgs |-> em \cup {"scanned_info"} \cup o.msgs]
        ELSE [text |-> st.text, struct |-> st.text, failed |-> st.error,
              log |-> <<"pdf">>, raster |-> 0, ocr |-> <<>>, ocrRaised |-> FALSE,
              msgs |-> em \cup {"selectable_info"}]
  ELSE IF doc.ext = "docx" THEN
    LET st == ExtractTextFromDocx(impl, doc)
    IN  [text |-> st.text, struct |-> st.text, failed |-> st.error,
         log |-> <<"docx">>, raster |-> 0, ocr |-> <<>>, ocrRaised |-> FALSE,
         msgs |-> IF st.error THEN {"docx_error"} ELSE {}]
  ELSE [text |-> <<>>, struct |-> <<>>, failed |-> FALSE, log |-> <<>>,
        raster |-> 0, ocr |-> <<>>, ocrRaised |-> FALSE, msgs |-> {}]

\* get_document_text(file_path, file_type) of app.py; get_pdf_text and
\* extract_text_from_docx of document_processor.py.  `log` lists the
\* extractors in the order they were called, `ocr` is what
\* extract_text_with_ocr returned.
GetDocumentText(impl, doc, ocrTexts, engine, fault) ==
  IF doc.ext = "pdf" THEN
    LET st == ExtractTextFromPdf(doc)
        em == IF st.error THEN {"pdf_error"} ELSE {}
    IN  IF NeedsOcr(st.text)
        THEN LET o == ExtractTextWithOcr(impl, Len(doc.pages), ocrTexts, engine, fault)
             IN  [text |-> o.text, struct |-> st.text, failed |-> st.error,
                  log |-> <<"pdf", "ocr">>, raster |-> o.raster,
                  ocr |-> o.text, ocrRaised |-> o.raised,
                  msgs |-> em \cup {"scanned_info"} \cup o.msgs]
        ELSE [text |-> st.text, struct |-> st.text, failed |-> st.error,
              log |-> <<"pdf">>, raster |-> 0, ocr |-> <<>>, ocrRaised |-> FALSE,
              msgs |-> em \cup {"selectable_info"}]
  ELSE IF doc.ext = "docx" THEN
    LET st == ExtractTextFromDocx(impl, doc)
    IN  [text |-> st.text, struct |-> st.text, failed |-> st.error,
         log |-> <<"docx">>, raster |-> 0, ocr |-> <<>>, ocrRaised |-> FALSE,
         msgs |-> IF st.error THEN {"docx_error"} ELSE {}]
  ELSE [text |-> <<>>, struct |-> <<>>, failed |-> FALSE, log |-> <<>>,
        raster |-> 0, ocr |-> <<>>, ocrRaised |-> FALSE, msgs |-> {}]

\* --------------------------------------------------------- answer service
\* what openai.ChatCompletion.create can do for one question
Outcomes == {[raised |-> TRUE, content |-> <<>>],
             [raised |-> FALSE, content |-> ReplyYes]}

\* get_gpt_answer letting an empty answer stand in for a failure
GetGptAnswerEmpty(impl, outcome) ==
  IF outcome.raised THEN <<>> ELSE Strip(outcome.content)
\* get_gpt_answer(question, openai) and the try/except of generate_answers
GetGptAnswer(impl, outcome) ==
  IF outcome.raised
  THEN (IF impl = "app" THEN FallbackApp ELSE FallbackDP)
  ELSE Strip(outcome.content)

\* the loop of generate_answers(questions): for each question in turn one
\* call to the service, then the pair is appended
RECURSIVE GenerateAnswersFrom(_, _, _)
GenerateAnswersFrom(qs, outs, acc) ==
  IF qs = <<>> THEN acc
  ELSE GenerateAnswersFrom(
         Tail(qs), Tail(outs),
         [pairs |-> Append(acc.pairs, <<Head(qs), GetGptAnswer("dp", Head(outs))>>),
          calls |-> Append(acc.calls, Head(qs))])

\* generate_answers(questions, api_key)
GenerateAnswers(qs, outs) ==
  GenerateAnswersFrom(qs, outs, [pairs |-> <<>>, calls |-> <<>>])

\* ------------------------------------------------------------------ state
VARIABLES
  segText,   \* SpecSeg: the text handed to extract_questions
  segOut,    \* SpecSeg: the list it returned
  segDone,   \* SpecSeg: extract_questions has returned
  asmPairs,  \* SpecAsm: the pairs handed to save_to_docx
  asmDoc,    \* SpecAsm: the paragraphs of the document it built
  asmDone,   \* SpecAsm: save_to_docx has returned
  prog,         \* which program runs: "app" (app.py) or "dp" (document_processor.py)
  pc,           \* position in main() or in the caller of the library
  envKey,       \* os.getenv("OPENAI_API_KEY")
  configKey,    \* config.OPENAI_API_KEY, NoKey when config cannot be imported
  engine,       \* a Tesseract binary exists at pytesseract's tesseract_cmd
  sessionKey,   \* st.session_state.api_key
  keyInput,     \* the value of the API-key text input
  picked,       \* the file the user chose in the upload control
  clicked,      \* the rerun was triggered by "Generate Expert Answers"
  buttonShown,  \* the button is on the page
  currentKey,   \* main: current_api_key
  uploaded,     \* main: uploaded_file
  tempExists,   \* the uploaded-file temp file is on storage
  outExists,    \* an output .docx temp file is on storage
  extractLog,   \* the extractors called, in order
  structText,   \* what structured extraction returned
  structFailed, \* the parsing library raised during structured extraction
  fullText,     \* full_text: the text handed to extract_questions
  rasterized,   \* pages rasterized by convert_from_path
  ocrText,      \* what extract_text_with_ocr returned, if it was called
  ocrRaised,    \* extract_text_with_ocr went through its except clause
  messages,     \* what was surfaced through st.error/warning/info
  questions,    \* the extracted questions
  qa,           \* questions_answers / qa_pairs
  callLog,      \* the questions sent to the answer service, in call order
  failed,       \* indices of the questions for which the service raised
  outDoc,       \* the paragraphs of the saved document
  exc,          \* an exception is propagating out of the try block
  exitPath      \* how the last run left the pipeline

segVars == <<segText, segOut, segDone>>
asmVars == <<asmPairs, asmDoc, asmDone>>
envVars == <<prog, envKey, configKey, engine>>
uiVars == <<sessionKey, keyInput, picked, clicked, buttonShown>>
fileVars == <<tempExists, outExists>>
textVars == <<extractLog, structText, structFailed, fullText, rasterized,
             ocrText, ocrRaised>>
ansVars == <<qa, callLog, failed, outDoc>>
vars == <<segVars, asmVars, envVars, uiVars, fileVars, textVars, ansVars,
          pc, currentKey, uploaded, messages, questions, exc, exitPath>>

\* the values of the run-scoped variables before anything has run
RunBlank ==
  /\ currentKey = NoKey /\ uploaded = NoFile
  /\ extractLog = <<>> /\ structText = <<>> /\ structFailed = FALSE
  /\ fullText = <<>> /\ rasterized = 0 /\ messages = {}
  /\ ocrText = <<>> /\ ocrRaised = FALSE
  /\ questions = <<>> /\ qa = <<>> /\ callLog = <<>> /\ failed = {}
  /\ outDoc = <<>> /\ exc = FALSE /\ exitPath = "none"

PipeIdle ==
  /\ prog = "app" /\ pc = "idle"
  /\ envKey = NoKey /\ configKey = NoKey /\ engine = FALSE
  /\ sessionKey = NoKey /\ keyInput = KeyEmpty /\ picked = NoFile
  /\ clicked = FALSE /\ buttonShown = FALSE
  /\ tempExists = FALSE /\ outExists = FALSE
  /\ RunBlank

pipeVars == <<envVars, uiVars, fileVars, textVars, ansVars,
              pc, currentKey, uploaded, messages, questions, exc, exitPath>>

\* -------------------------------------------- SpecSeg: extract_questions
SegAlphabet == {"A", "b", " ", "?", ".", "!", "\n"}
SegTexts == UNION {[1..n -> SegAlphabet] : n \in 0..MaxLen}

SegIdle == segText = <<>> /\ segOut = <<>> /\ segDone = FALSE

AsmIdle == asmPairs = <<>> /\ asmDoc = <<>> /\ asmDone = FALSE

InitSeg ==
  /\ segText \in SegTexts
  /\ segOut = <<>>
  /\ segDone = FALSE
  /\ AsmIdle
  /\ PipeIdle

Segment ==
  /\ ~segDone
  /\ segOut' = ExtractQuestions(segText)
  /\ segDone' = TRUE
  /\ UNCHANGED <<segText, asmVars, pipeVars>>

NextSeg == Segment
SpecSeg == InitSeg /\ [][NextSeg]_vars

\* C6: every string extract_questions returns ends in "?", starts with an
\* uppercase letter, has no ".", "!" or "?" before the final "?", and has at
\* least 3 whitespace-separated tokens; the empty text gives the empty list.
TokenStarts(q) ==
  {i \in 1..Len(q) : q[i] \notin Whitespace /\ (i = 1 \/ q[i - 1] \in Whitespace)}
WellFormedQuestion(q) ==
  /\ Len(q) >= 1
  /\ q[Len(q)] = "?"
  /\ q[1] \in Upper
  /\ \A i \in 1..(Len(q) - 1) : q[i] \notin Terminators
  /\ Cardinality(TokenStarts(q)) >= 3
SegmenterSound ==
  segDone =>
    /\ \A k \in 1..Len(segOut) : WellFormedQuestion(segOut[k])
    /\ (segText = <<>> => segOut = <<>>)
\* a text from which a three-token question was extracted
SegmenterWitness == segDone /\ Len(segOut) >= 1 /\ Len(segText) > Len(segOut[1])

\* ------------------------------------------------ SpecAsm: save_to_docx
AsmQuestions == {QWhy, QCan}
AsmAnswers == {Strip(ReplyYes), FallbackApp}
AsmPairSet == AsmQuestions \X AsmAnswers
AsmInputs == UNION {[1..n -> AsmPairSet] : n \in 0..MaxPairs}

InitAsm ==
  /\ asmPairs \in AsmInputs
  /\ asmDoc = <<>>
  /\ asmDone = FALSE
  /\ SegIdle
  /\ PipeIdle

Assemble ==
  /\ ~asmDone
  /\ asmDoc' = SaveToDocx(asmPairs)
  /\ asmDone' = TRUE
  /\ UNCHANGED <<asmPairs, segVars, pipeVars>>

NextAsm == Assemble
SpecAsm == InitAsm /\ [][NextAsm]_vars

\* C7: the document is the heading "Questions & Answers from Document" and
\* then, for the k-th pair in input order, a "Heading 2" paragraph
\* "Question k: <question>" followed by a paragraph holding that pair's
\* answer (and a line break); no pair is skipped, fallback answers included.
RendersEveryPair(doc, pairs) ==
  /\ Len(doc) = 1 + 2 * Len(pairs)
  /\ doc[1] = [style |-> "Heading 1", text |-> Title]
  /\ \A k \in 1..Len(pairs) :
       /\ doc[2 * k].style = "Heading 2"
       /\ doc[2 * k].text =
            QuestionLabel \o IntToStr(k) \o <<":", " ">> \o pairs[k][1]
       /\ doc[2 * k + 1].style = "Normal"
       /\ doc[2 * k + 1].text = pairs[k][2] \o <<"\n">>
AssemblerRendersAll == asmDone => RendersEveryPair(asmDoc, asmPairs)
\* two pairs or more, one of them with the fallback answer
AssemblerWitness ==
  /\ asmDone
  /\ Len(asmPairs) >= 2
  /\ asmPairs[2][2] = FallbackApp
  /\ Len(asmDoc) = 1 + 2 * Len(asmPairs)

\* ------------------------------------------------- Spec: the two programs
Docs == DocsOf("pdf") \cup DocsOf("docx") \cup {OtherFile}
KeyInputs == {KeyEmpty, KeyShortSk, KeyGoodOrg}

Init ==
  /\ prog \in {"app", "dp"}
  /\ pc = "idle"
  /\ envKey \in {NoKey, KeyGoodSk}
  /\ configKey \in {NoKey, KeyBadPrefix}
  /\ (envKey # NoKey => configKey = NoKey)
  /\ (prog = "dp" => envKey = NoKey /\ configKey = NoKey)
  /\ engine \in BOOLEAN
  /\ sessionKey = NoKey /\ keyInput = KeyEmpty /\ picked = NoFile
  /\ clicked = FALSE /\ buttonShown = FALSE
  /\ tempExists = FALSE /\ outExists = FALSE
  /\ RunBlank
  /\ SegIdle /\ AsmIdle

\* A widget interaction makes Streamlit run the script again from the top:
\* the locals of main() start afresh.
Rerun ==
  /\ pc' = "main"
  /\ currentKey' = NoKey /\ uploaded' = NoFile
  /\ extractLog' = <<>> /\ structText' = <<>> /\ structFailed' = FALSE
  /\ fullText' = <<>> /\ rasterized' = 0 /\ messages' = {}
  /\ ocrText' = <<>> /\ ocrRaised' = FALSE
  /\ questions' = <<>> /\ qa' = <<>> /\ callLog' = <<>> /\ failed' = {}
  /\ outDoc' = <<>> /\ exc' = FALSE /\ exitPath' = "none"
  /\ buttonShown' = FALSE
  /\ UNCHANGED <<segVars, asmVars, envVars, sessionKey, fileVars>>

\* the user types into the API-key field
TypeKey ==
  /\ prog = "app" /\ pc = "idle"
  /\ \E k \in KeyInputs : keyInput' = k
  /\ clicked' = FALSE
  /\ Rerun
  /\ UNCHANGED picked

\* the user chooses a file in the empty upload control
PickFile ==
  /\ prog = "app" /\ pc = "idle"
  /\ picked = NoFile
  /\ \E d \in Docs : picked' = d
  /\ clicked' = FALSE
  /\ Rerun
  /\ UNCHANGED keyInput

\* the user removes the file from the upload control
RemoveFile ==
  /\ prog = "app" /\ pc = "idle"
  /\ picked # NoFile
  /\ picked' = NoFile
  /\ clicked' = FALSE
  /\ Rerun
  /\ UNCHANGED keyInput

\* the user presses "Generate Expert Answers", which is on the page
ClickButton ==
  /\ prog = "app" /\ pc = "idle"
  /\ buttonShown
  /\ clicked' = TRUE
  /\ Rerun
  /\ UNCHANGED <<keyInput, picked>>

\* main, lines 229-271: resolve and validate the credential
MainSetup ==
  /\ prog = "app" /\ pc = "main"
  /\ LET resolved == GetApiKey(envKey, sessionKey, configKey)
         typed    == keyInput.s # <<>>
         accepted == typed /\ ValidateApiKey(keyInput)
         current  == IF accepted THEN keyInput ELSE resolved
     IN  /\ sessionKey' = (IF accepted THEN keyInput ELSE sessionKey)
         /\ currentKey' = current
         /\ messages' =
              (IF accepted THEN {"key_set"}
               ELSE IF typed THEN {"invalid_key_format"} ELSE {})
              \cup (IF ValidateApiKey(current) THEN {"key_configured"}
                    ELSE {"key_warning"})
  /\ pc' = "upload"
  /\ UNCHANGED <<segVars, asmVars, envVars, keyInput, picked, clicked, buttonShown,
                 fileVars, textVars, ansVars, uploaded, questions, exc, exitPath>>

\* main, line 274: the upload control
Upload ==
  /\ prog = "app" /\ pc = "upload"
  /\ LET u == FileUploader(picked)
     IN  /\ uploaded' = u.file
         /\ messages' = messages \cup (IF u.rejected THEN {"upload_rejected"} ELSE {})
  /\ pc' = "gate"
  /\ UNCHANGED <<segVars, asmVars, envVars, uiVars, fileVars, textVars, ansVars,
                 currentKey, questions, exc, exitPath>>

\* main, line 276 false: the pipeline is not entered
SkipPipeline ==
  /\ prog = "app" /\ pc = "gate"
  /\ ~PipelineEnabled(uploaded, currentKey)
  /\ exitPath' = "skipped"
  /\ pc' = "idle"
  /\ UNCHANGED <<segVars, asmVars, envVars, uiVars, fileVars, textVars, ansVars,
                 currentKey, uploaded, messages, questions, exc>>

\* main, lines 276-286: the upload is written to a named temp file
SaveUpload ==
  /\ prog = "app" /\ pc = "gate"
  /\ PipelineEnabled(uploaded, currentKey)
  /\ tempExists' = TRUE
  /\ messages' = messages \cup
       (IF uploaded.ext = "pdf" /\ ~engine THEN {"ocr_not_installed"} ELSE {})
  /\ pc' = "extract"
  /\ UNCHANGED <<segVars, asmVars, envVars, uiVars, outExists, textVars, ansVars,
                 currentKey, uploaded, questions, exc, exitPath>>

\* the result of get_document_text / get_pdf_text stored in the state
StoreText(r) ==
  /\ extractLog' = r.log
  /\ structText' = r.struct
  /\ structFailed' = r.failed
  /\ fullText' = r.text
  /\ rasterized' = r.raster
  /\ ocrText' = r.ocr
  /\ ocrRaised' = r.ocrRaised
  /\ messages' = messages \cup r.msgs

\* main, line 291: full_text = get_document_text(temp_file_path, file_type)
GetDocumentTextStep ==
  /\ prog = "app" /\ pc = "extract"
  /\ \E ocrTexts \in [1..Len(uploaded.pages) -> OcrTexts], fault \in OcrFaults :
       StoreText(GetDocumentText("app", uploaded, ocrTexts, engine, fault))
  /\ pc' = "segment"
  /\ UNCHANGED <<segVars, asmVars, envVars, uiVars, fileVars, ansVars,
                 currentKey, uploaded, questions, exc, exitPath>>

\* main, line 292: questions = extract_questions(full_text)
ExtractQuestionsStep ==
  /\ prog = "app" /\ pc = "segment"
  /\ questions' = ExtractQuestions(fullText)
  /\ pc' = "branch"
  /\ UNCHANGED <<segVars, asmVars, envVars, uiVars, fileVars, textVars, ansVars,
                 currentKey, uploaded, messages, exc, exitPath>>

\* main, lines 294-295: no questions
NoQuestions ==
  /\ prog = "app" /\ pc = "branch"
  /\ questions = <<>>
  /\ messages' = messages \cup {"no_questions"}
  /\ exitPath' = "no_questions"
  /\ pc' = "finally"
  /\ UNCHANGED <<segVars, asmVars, envVars, uiVars, fileVars, textVars, ansVars,
                 currentKey, uploaded, questions, exc>>

\* main, lines 297-302: the questions and the button are shown; st.button
\* returns False
ShowQuestions ==
  /\ prog = "app" /\ pc = "branch"
  /\ questions # <<>>
  /\ ~AcquisitionEnabled(questions, clicked)
  /\ buttonShown' = TRUE
  /\ exitPath' = "questions_shown"
  /\ pc' = "finally"
  /\ UNCHANGED <<segVars, asmVars, envVars, sessionKey, keyInput, picked, clicked,
                 fileVars, textVars, ansVars, currentKey, uploaded, messages,
                 questions, exc>>

\* main, lines 297-305: st.button returns True
StartAnswers ==
  /\ prog = "app" /\ pc = "branch"
  /\ AcquisitionEnabled(questions, clicked)
  /\ buttonShown' = TRUE
  /\ qa' = <<>>
  /\ pc' = "answer"
  /\ UNCHANGED <<segVars, asmVars, envVars, sessionKey, keyInput, picked, clicked,
                 fileVars, textVars, callLog, failed, outDoc, currentKey, uploaded,
                 messages, questions, exc, exitPath>>

\* main, lines 307-310: one pass of the loop over the questions
GetAnswerStep ==
  /\ prog = "app" /\ pc = "answer"
  /\ LET i == Len(qa) + 1
     IN  \E o \in Outcomes :
           /\ callLog' = Append(callLog, questions[i])
           /\ qa' = Append(qa, <<questions[i], GetGptAnswer("app", o)>>)
           /\ failed' = (IF o.raised THEN failed \cup {i} ELSE failed)
           /\ messages' = messages \cup (IF o.raised THEN {"answer_error"} ELSE {})
           /\ pc' = (IF i = Len(questions) THEN "save" ELSE "answer")
  /\ UNCHANGED <<segVars, asmVars, envVars, uiVars, fileVars, textVars, outDoc,
                 currentKey, uploaded, questions, exc, exitPath>>

\* main, lines 313-329: the output temp file is created and the document
\* saved and offered for download; doc.save or open may raise
SaveToDocxStep ==
  /\ prog = "app" /\ pc = "save"
  /\ outExists' = TRUE
  /\ \E ok \in BOOLEAN :
       IF ok
       THEN outDoc' = SaveToDocx(qa) /\ exc' = FALSE /\ exitPath' = "done"
       ELSE outDoc' = outDoc /\ exc' = TRUE /\ exitPath' = "exception"
  /\ pc' = "finally"
  /\ UNCHANGED <<segVars, asmVars, envVars, uiVars, tempExists, textVars, qa, callLog,
                 failed, currentKey, uploaded, messages, questions>>

\* cleanup placed after the try block instead of in a finally clause
FinallyUnlessRaised ==
  /\ prog = "app" /\ pc = "finally"
  /\ tempExists' = (exc /\ tempExists)
  /\ pc' = "idle"
  /\ UNCHANGED <<segVars, asmVars, envVars, uiVars, outExists, textVars, ansVars,
                 currentKey, uploaded, messages, questions, exc, exitPath>>
\* main, lines 332-337: finally: os.unlink(temp_file_path)
Finally ==
  /\ prog = "app" /\ pc = "finally"
  /\ tempExists' = FALSE
  /\ pc' = "idle"
  /\ UNCHANGED <<segVars, asmVars, envVars, uiVars, outExists, textVars, ansVars,
                 currentKey, uploaded, messages, questions, exc, exitPath>>

\* document_processor.py: extract_questions_from_pdf(pdf_path)
DPExtractQuestionsFromPdf ==
  /\ prog = "dp" /\ pc = "idle"
  /\ \E d \in DocsOf("pdf") :
       /\ picked' = d
       /\ \E ocrTexts \in [1..Len(d.pages) -> OcrTexts], fault \in OcrFaults :
            LET r == GetDocumentText("dp", d, ocrTexts, engine, fault)
            IN  StoreText(r) /\ questions' = ExtractQuestions(r.text)
  /\ pc' = "dp_questions"
  /\ UNCHANGED <<segVars, asmVars, envVars, sessionKey, keyInput, clicked, buttonShown,
                 fileVars, ansVars, currentKey, uploaded, exc, exitPath>>

\* document_processor.py: extract_questions_from_docx(docx_path)
DPExtractQuestionsFromDocx ==
  /\ prog = "dp" /\ pc = "idle"
  /\ \E d \in DocsOf("docx") :
       /\ picked' = d
       /\ LET r == GetDocumentText("dp", d, <<>>, engine, "none")
          IN  StoreText(r) /\ questions' = ExtractQuestions(r.text)
  /\ pc' = "dp_questions"
  /\ UNCHANGED <<segVars, asmVars, envVars, sessionKey, keyInput, clicked, buttonShown,
                 fileVars, ansVars, currentKey, uploaded, exc, exitPath>>

\* document_processor.py: generate_answers(questions, api_key)
DPGenerateAnswers ==
  /\ prog = "dp" /\ pc = "dp_questions"
  /\ \E outs \in [1..Len(questions) -> Outcomes] :
       LET r == GenerateAnswers(questions, outs)
       IN  /\ qa' = r.pairs
           /\ callLog' = r.calls
           /\ failed' = {i \in 1..Len(questions) : outs[i].raised}
           /\ messages' = messages \cup
                (IF \E i \in 1..Len(questions) : outs[i].raised
                 THEN {"answer_error"} ELSE {})
  /\ pc' = "dp_answers"
  /\ UNCHANGED <<segVars, asmVars, envVars, uiVars, fileVars, textVars, outDoc,
                 currentKey, uploaded, questions, exc, exitPath>>

\* document_processor.py: save_qa_to_docx(questions_answers, output_file)
DPSaveQaToDocx ==
  /\ prog = "dp" /\ pc = "dp_answers"
  /\ outDoc' = SaveToDocx(qa)
  /\ outExists' = TRUE
  /\ pc' = "dp_saved"
  /\ UNCHANGED <<segVars, asmVars, envVars, uiVars, tempExists, textVars, qa, callLog,
                 failed, currentKey, uploaded, messages, questions, exc, exitPath>>

Next ==
  \/ TypeKey \/ PickFile \/ RemoveFile \/ ClickButton
  \/ MainSetup \/ Upload \/ SkipPipeline \/ SaveUpload
  \/ GetDocumentTextStep \/ ExtractQuestionsStep
  \/ NoQuestions \/ ShowQuestions \/ StartAnswers
  \/ GetAnswerStep \/ SaveToDocxStep \/ Finally
  \/ DPExtractQuestionsFromPdf \/ DPExtractQuestionsFromDocx
  \/ DPGenerateAnswers \/ DPSaveQaToDocx

Spec == Init /\ [][Next]_vars

\* ------------------------------------------------------- claims under Spec
Range(f) == {f[i] : i \in DOMAIN f}
Extracted == extractLog # <<>>
\* the run has got past segmentation (or the library caller has)
Segmented ==
  \/ pc \in {"branch", "answer", "save", "dp_questions", "dp_answers", "dp_saved"}
  \/ exitPath \in {"no_questions", "questions_shown", "done", "exception"}

\* C1: for a pdf structured extraction is called first and OCR is called if
\* and only if the trimmed structured text is shorter than 50 characters; for
\* a docx OCR is never called.
OcrDecision ==
  Extracted =>
    /\ picked.ext = "pdf" =>
         /\ extractLog[1] = "pdf"
         /\ ("ocr" \in Range(extractLog)) <=> (Len(Strip(structText)) < 50)
    /\ picked.ext = "docx" =>
         /\ "ocr" \notin Range(extractLog)
         /\ rasterized = 0
\* a pdf whose trimmed structured text is exactly 50 characters: no OCR
OcrBoundaryWitness ==
  /\ picked.ext = "pdf"
  /\ extractLog = <<"pdf">>
  /\ Len(Strip(structText)) = 50
  /\ Len(structText) > 50

UnsupportedShortCircuits ==
  (prog = "app" /\ picked.some /\ picked.ext \notin {"pdf", "docx"}) =>
    /\ ~tempExists
    /\ extractLog = <<>>
    /\ pc \in {"main", "upload", "gate", "idle"}
    /\ pc \in {"gate", "idle"} => ("upload_rejected" \in messages /\ ~uploaded.some)
\* a run with a valid credential that the format alone kept out of the pipeline
UnsupportedWitness ==
  /\ pc = "idle" /\ exitPath = "skipped"
  /\ picked = OtherFile
  /\ ValidateApiKey(currentKey)
  /\ "upload_rejected" \in messages

\* C4 as stated: a run with an uploaded document and an invalid credential
\* still extracts and segments, and surfaces the result.
InvalidKeyStillExtracts ==
  (prog = "app" /\ pc = "idle" /\ exitPath # "none"
     /\ uploaded.some /\ ~ValidateApiKey(currentKey)) =>
    /\ extractLog # <<>>
    /\ exitPath \in {"no_questions", "questions_shown"}
\* C4 amended: once the credential of a run has been found invalid the whole
\* pipeline is blocked: no temp file, no extraction, no questions, no call to
\* the answer service, and the warning asking for the key is shown.
KeyResolved == prog = "app" /\ pc # "main" /\ ~(pc = "idle" /\ exitPath = "none")
InvalidKeyBlocksPipeline ==
  KeyResolved =>
    (~ValidateApiKey(currentKey) =>
       /\ pc \in {"upload", "gate", "idle"}
       /\ ~tempExists
       /\ extractLog = <<>> /\ questions = <<>> /\ callLog = <<>>
       /\ "key_warning" \in messages)
\* a pdf was uploaded, the typed key is too short, and the run ended skipped
InvalidKeyWitness ==
  /\ pc = "idle" /\ exitPath = "skipped"
  /\ uploaded.some /\ uploaded.ext = "pdf" /\ uploaded.pages # <<>>
  /\ keyInput = KeyShortSk
  /\ ~ValidateApiKey(currentKey)

\* C5: the pairs collected so far follow the question list in order, every
\* failing question carries the fallback string of its program, and once
\* acquisition is over there are exactly as many pairs as questions.
Fallback == IF prog = "app" THEN FallbackApp ELSE FallbackDP
AcquisitionOver ==
  \/ pc \in {"save", "dp_answers", "dp_saved"}
  \/ pc \in {"finally", "idle"} /\ callLog # <<>>
AnswersComplete ==
  /\ Len(qa) <= Len(questions)
  /\ failed \subseteq 1..Len(qa)
  /\ \A i \in 1..Len(qa) :
       /\ qa[i][1] = questions[i]
       /\ i \in failed => qa[i][2] = Fallback
  /\ AcquisitionOver => Len(qa) = Len(questions)
\* the first of two or more questions failed and the batch went on
AnswersWitness ==
  /\ AcquisitionOver
  /\ Len(questions) >= 2
  /\ failed = {1}
  /\ qa[2][2] = Strip(ReplyYes)

\* C8 as stated: after an exception during structured extraction the
\* extractor has returned empty text and the question list is empty.
ExtractionFailureYieldsEmpty ==
  structFailed =>
    /\ structText = <<>>
    /\ Segmented => questions = <<>>
\* C8 amended: an exception during structured extraction is surfaced and
\* never leaves the extractor; the docx extractor returns empty text, so the
\* question list is empty; the pdf extractor returns the text of the pages
\* read before the exception, which goes through the 50-character decision.
ExtractionFailureRecovered ==
  structFailed =>
    /\ ~exc \/ exitPath = "exception"
    /\ pc \in {"finally", "idle"} =>
         exitPath \in {"no_questions", "questions_shown", "done", "exception"}
    /\ picked.ext = "docx" =>
         /\ "docx_error" \in messages
         /\ structText = <<>> /\ fullText = <<>> /\ questions = <<>>
    /\ picked.ext = "pdf" =>
         /\ "pdf_error" \in messages
         /\ structText = PdfText(picked.pages, picked.readOk)
         /\ ("ocr" \in Range(extractLog)) <=> (Len(Strip(structText)) < 50)
         /\ "ocr" \notin Range(extractLog) => fullText = structText
\* a pdf that raised after two pages: their questions were still extracted
ExtractionFailureWitness ==
  /\ structFailed /\ picked.ext = "pdf"
  /\ extractLog = <<"pdf">>
  /\ Len(questions) >= 2

\* C9 as stated: when OCR is called on a document that has pages and no
\* engine is available, nothing is rasterized, the text is empty and an
\* error is surfaced.
OcrUnavailableDetectedFirst ==
  ("ocr" \in Range(extractLog) /\ ~engine /\ picked.pages # <<>>) =>
    /\ rasterized = 0
    /\ fullText = <<>>
    /\ messages \cap {"ocr_unavailable", "ocr_error"} # {}

\* C10: in the application the answer service is called only in a run the
\* button triggered and only with questions; in both programs the k-th call
\* is for the k-th question and its pair is appended before the next call,
\* so no question is sent twice.
AcquisitionOnlyOnTrigger ==
  /\ (prog = "app" /\ (pc \in {"answer", "save"} \/ callLog # <<>>)) =>
       (clicked /\ questions # <<>>)
  /\ Len(callLog) <= Len(questions)
  /\ \A i \in 1..Len(callLog) : callLog[i] = questions[i]
  /\ Len(qa) = Len(callLog)
\* the application after a triggered batch in which the first call failed
AcquisitionWitness ==
  /\ prog = "app" /\ pc = "save"
  /\ clicked
  /\ Len(callLog) >= 2
  /\ 1 \in failed

\* C11: when OCR is called for a pdf (trimmed structured text shorter than 50
\* characters) the text handed to the segmenter is exactly what OCR returned
\* and the structured text is dropped; with no engine, or when OCR raised,
\* that text is empty and so is the question list, whatever the structured
\* text held.
OcrCalled == "ocr" \in Range(extractLog)
OcrOutputReplacesStructured ==
  OcrCalled =>
    /\ picked.ext = "pdf" /\ Len(Strip(structText)) < 50
    /\ fullText = ocrText
    /\ Segmented => questions = ExtractQuestions(ocrText)
    /\ (~engine \/ ocrRaised) =>
         /\ fullText = <<>>
         /\ Segmented => questions = <<>>
\* a short structured text with a valid question in it, lost because no
\* engine is available
OcrDiscardsQuestionWitness ==
  /\ OcrCalled /\ Segmented
  /\ ~engine
  /\ ExtractQuestions(structText) # <<>>
  /\ fullText = <<>> /\ questions = <<>>
====
